---- MODULE Spec2Model ----
(***************************************************************************)
(* f1_analysis.py: turn detection over one lap's telemetry (find_turns)    *)
(* and the six-panel telemetry figure (plot_telemetry_with_turns).         *)
(*                                                                         *)
(* A telemetry data frame is modelled as a record                          *)
(*     [columns : the set of column names it has,                          *)
(*      rows    : the sequence of its samples (Distance, Speed, Brake)].   *)
(* Reading a column that is not in `columns` raises KeyError.  Python      *)
(* positions are 0-based; TLA+ sequences are 1-based, so position e of the *)
(* code is element e + 1 of `rows`.                                        *)
(***************************************************************************)
EXTENDS Integers, Sequences, FiniteSets

VARIABLES
    telemetry,        \* find_turns: the data frame passed by the caller
    speed_threshold,  \* find_turns: argument
    brake_threshold,  \* find_turns: argument
    turns,            \* find_turns: the list returned by the last call
    raised,           \* find_turns: "none" or the exception of the last call
    calls,            \* number of find_turns calls made on this telemetry
    telemetries,      \* plot_telemetry_with_turns: argument
    drivers,          \* plot_telemetry_with_turns: argument
    ax,               \* the six axes of the figure; <<>> before plt.subplots
    plot_raised,      \* "none" or the exception that aborted the plot call
    shown             \* TRUE once plt.show() has been reached

vars == <<telemetry, speed_threshold, brake_threshold, turns, raised, calls,
          telemetries, drivers, ax, plot_raised, shown>>

find_vars == <<telemetry, speed_threshold, brake_threshold, turns, raised, calls>>
plot_vars == <<telemetries, drivers, ax, plot_raised, shown>>

----------------------------------------------------------------------------
(* Bounds and input domains *)

MaxLen == 3        \* longest telemetry given to find_turns
MaxCalls == 2      \* find_turns calls made on one telemetry
MaxSeries == 2     \* longest list of telemetries given to the plot
MaxDrivers == 3    \* longest list of driver codes given to the plot

DefaultSpeedThreshold == 100
DefaultBrakeThreshold == 50
NumPanels == 6

Columns == {"Distance", "Speed", "Throttle", "Brake", "RPM", "nGear", "DRS"}

Sample(d, s, b) == [Distance |-> d, Speed |-> s, Brake |-> b]

Distances == {0, 1, 50}
Speeds == {90, 150}
Brakes == {0, 60, 70}
Samples == {Sample(d, s, b) : d \in Distances, s \in Speeds, b \in Brakes}

\* a lap in which two braking samples share one distance
Scenario == <<Sample(0, 150, 0), Sample(50, 90, 60), Sample(50, 90, 70)>>

NonDecreasing(s) == \A j \in 1..(Len(s) - 1) : s[j] <= s[j + 1]

\* the laps of at most MaxLen samples; a lap is sorted by distance
Rows ==
    {r \in UNION {[1..n -> Samples] : n \in 0..MaxLen} :
        NonDecreasing([i \in 1..Len(r) |-> r[i].Distance])}

\* the full frame, and the frames that lack one column find_turns reads
FindColumnSets == {Columns} \cup {Columns \ {c} : c \in {"Distance", "Speed", "Brake"}}

Telemetry == {[columns |-> c, rows |-> r] : c \in FindColumnSets, r \in Rows}

\* the defaults, and pairs that put sample values on the thresholds
Thresholds == {<<DefaultSpeedThreshold, DefaultBrakeThreshold>>, <<150, 0>>, <<90, 60>>}

\* analysis.py: the driver codes of the script
DriverCodes == <<"VER", "NOR", "LEC", "HAM">>

\* laps handed to the plot: empty; no braking; two turns; one distance twice
Laps == { <<>>,
          <<Sample(0, 150, 0)>>,
          <<Sample(0, 150, 0), Sample(50, 90, 60), Sample(120, 90, 70)>>,
          Scenario }

PlotColumnSets == {Columns} \cup {Columns \ {c} : c \in Columns}

PlotTelemetry == {[columns |-> c, rows |-> r] : c \in PlotColumnSets, r \in Laps}

----------------------------------------------------------------------------
(* find_turns *)

Result(exc, list) == [raised |-> exc, turns |-> list]

\* Python `x in list`
Contains(list, x) == \E j \in 1..Len(list) : list[j] = x

\* mutant of brake_events: `>=` for `>`
brake_events_inclusive(tel, br_thr) ==
    SelectSeq([i \in 1..Len(tel.rows) |-> i - 1],
              LAMBDA e : tel.rows[e + 1].Brake >= br_thr)

\* np.where(brake > brake_threshold)[0]: the 0-based positions, ascending
brake_events(tel, br_thr) ==
    SelectSeq([i \in 1..Len(tel.rows) |-> i - 1],
              LAMBDA e : tel.rows[e + 1].Brake > br_thr)

\* mutant of scan_events: the speed test dropped
RECURSIVE scan_events_any_speed(_, _, _, _, _)
scan_events_any_speed(tel, events, k, sp_thr, acc) ==
    IF k > Len(events) THEN Result("none", acc)
    ELSE LET event == events[k] IN
         IF ~Contains(acc, event)
         THEN IF "Distance" \notin tel.columns
              THEN Result("KeyError", <<>>)
              ELSE scan_events_any_speed(tel, events, k + 1, sp_thr,
                                         Append(acc, tel.rows[event + 1].Distance))
         ELSE scan_events_any_speed(tel, events, k + 1, sp_thr, acc)

\* mutant of scan_events: turns.insert(0, ...) for turns.append(...)
RECURSIVE scan_events_prepend(_, _, _, _, _)
scan_events_prepend(tel, events, k, sp_thr, acc) ==
    IF k > Len(events) THEN Result("none", acc)
    ELSE LET event == events[k] IN
         IF tel.rows[event + 1].Speed < sp_thr /\ ~Contains(acc, event)
         THEN IF "Distance" \notin tel.columns
              THEN Result("KeyError", <<>>)
              ELSE scan_events_prepend(tel, events, k + 1, sp_thr,
                                       <<tel.rows[event + 1].Distance>> \o acc)
         ELSE scan_events_prepend(tel, events, k + 1, sp_thr, acc)

\* the for loop of find_turns from its k-th event on, `acc` being `turns`
RECURSIVE scan_events(_, _, _, _, _)
scan_events(tel, events, k, sp_thr, acc) ==
    IF k > Len(events) THEN Result("none", acc)
    ELSE LET event == events[k] IN
         IF tel.rows[event + 1].Speed < sp_thr /\ ~Contains(acc, event)
         THEN IF "Distance" \notin tel.columns
              THEN Result("KeyError", <<>>)
              ELSE scan_events(tel, events, k + 1, sp_thr,
                               Append(acc, tel.rows[event + 1].Distance))
         ELSE scan_events(tel, events, k + 1, sp_thr, acc)

find_turns(tel, sp_thr, br_thr) ==
    IF "Speed" \notin tel.columns THEN Result("KeyError", <<>>)
    ELSE IF "Brake" \notin tel.columns THEN Result("KeyError", <<>>)
    ELSE scan_events(tel, brake_events(tel, br_thr), 1, sp_thr, <<>>)

----------------------------------------------------------------------------
(* plot_telemetry_with_turns *)

colors == <<"orange", "red", "blue", "green", "pink", "grey", "black", "yellow", "brown">>

PanelColumns == <<"Speed", "Throttle", "Brake", "RPM", "nGear", "DRS">>
PanelNames == <<"Speed", "Throttle", "Brake", "RPM", "Gear", "DRS">>
YLabels == <<"Speed (km/h)", "Throttle (%)", "Brake (%)", "RPM", "Gear", "DRS">>

Panels == 1..NumPanels

\* plt.subplots(6, 1, ...): six empty axes
subplots ==
    [p \in Panels |-> [lines |-> <<>>, marks |-> <<>>, ylabel |-> "",
                       xlabel |-> "", legend |-> FALSE]]

PlotResult(exc, axes) == [raised |-> exc, ax |-> axes]

\* the six ax[p].plot(...) calls for one telemetry, from panel p on
RECURSIVE plot_traces(_, _, _, _, _)
plot_traces(axes, tel, driver, color, p) ==
    IF p > NumPanels THEN PlotResult("none", axes)
    ELSE IF "Distance" \notin tel.columns \/ PanelColumns[p] \notin tel.columns
         THEN PlotResult("KeyError", axes)
         ELSE plot_traces(
                [axes EXCEPT ![p].lines =
                    Append(@, [label |-> <<driver, PanelNames[p]>>, color |-> color])],
                tel, driver, color, p + 1)

\* list.index(x) + 1: the 1-based position of the first element equal to x
index_plus_1(list, x) ==
    CHOOSE j \in 1..Len(list) : list[j] = x /\ \A k \in 1..(j - 1) : list[k] # x

\* the axvline/annotate loops: on every axis, one marker per element of `found`
annotate_turns(axes, found) ==
    [p \in Panels |->
        [axes[p] EXCEPT !.marks =
            @ \o [k \in 1..Len(found) |->
                    [x |-> found[k], text |-> <<"Turn", index_plus_1(found, found[k])>>]]]]

\* the enumerate loop from 0-based position i on
RECURSIVE plot_loop(_, _, _, _)
plot_loop(axes, tels, drvs, i) ==
    IF i >= Len(tels) THEN PlotResult("none", axes)
    ELSE IF i >= Len(drvs) THEN PlotResult("IndexError", axes)
    ELSE LET driver == drvs[i + 1]
             color == colors[(i % Len(colors)) + 1]
             found == find_turns(tels[i + 1], DefaultSpeedThreshold, DefaultBrakeThreshold)
         IN IF found.raised # "none" THEN PlotResult(found.raised, axes)
            ELSE LET traced == plot_traces(axes, tels[i + 1], driver, color, 1)
                 IN IF traced.raised # "none" THEN traced
                    ELSE plot_loop(annotate_turns(traced.ax, found.turns), tels, drvs, i + 1)

\* set_ylabel / set_xlabel / legend after the loop
finish_axes(axes) ==
    [p \in Panels |->
        [axes[p] EXCEPT !.ylabel = YLabels[p],
                        !.xlabel = IF p = NumPanels THEN "Distance (m)" ELSE "",
                        !.legend = TRUE]]

plot_telemetry_with_turns(tels, drvs) ==
    LET looped == plot_loop(subplots, tels, drvs, 0)
    IN IF looped.raised # "none"
       THEN [raised |-> looped.raised, ax |-> looped.ax, shown |-> FALSE]
       ELSE [raised |-> "none", ax |-> finish_axes(looped.ax), shown |-> TRUE]

----------------------------------------------------------------------------
(* Specifications *)

FindIdle ==
    /\ telemetry = [columns |-> Columns, rows |-> <<>>]
    /\ speed_threshold = DefaultSpeedThreshold
    /\ brake_threshold = DefaultBrakeThreshold
    /\ turns = <<>>
    /\ raised = "none"
    /\ calls = 0

PlotIdle ==
    /\ telemetries = <<>>
    /\ drivers = <<>>
    /\ ax = <<>>
    /\ plot_raised = "none"
    /\ shown = FALSE

\* a caller holding one telemetry and a pair of thresholds
InitFind ==
    /\ telemetry \in Telemetry
    /\ \E t \in Thresholds : speed_threshold = t[1] /\ brake_threshold = t[2]
    /\ turns = <<>>
    /\ raised = "none"
    /\ calls = 0
    /\ PlotIdle

\* one call of find_turns on the caller's telemetry
FindTurnsCall ==
    /\ calls < MaxCalls
    /\ LET r == find_turns(telemetry, speed_threshold, brake_threshold)
       IN /\ raised' = r.raised
          /\ turns' = r.turns
    /\ calls' = calls + 1
    /\ UNCHANGED <<telemetry, speed_threshold, brake_threshold>>
    /\ UNCHANGED plot_vars

NextFind == FindTurnsCall

SpecFind == InitFind /\ [][NextFind]_vars

\* a caller holding a list of telemetries and a list of driver codes
InitPlot ==
    /\ telemetries \in UNION {[1..n -> PlotTelemetry] : n \in 0..MaxSeries}
    /\ drivers \in {SubSeq(DriverCodes, 1, n) : n \in 0..MaxDrivers}
    /\ ax = <<>>
    /\ plot_raised = "none"
    /\ shown = FALSE
    /\ FindIdle

\* one call of plot_telemetry_with_turns
PlotCall ==
    /\ ax = <<>>
    /\ LET r == plot_telemetry_with_turns(telemetries, drivers)
       IN /\ ax' = r.ax
          /\ plot_raised' = r.raised
          /\ shown' = r.shown
    /\ UNCHANGED <<telemetries, drivers>>
    /\ UNCHANGED find_vars

NextPlot == PlotCall

SpecPlot == InitPlot /\ [][NextPlot]_vars

----------------------------------------------------------------------------
(* Properties of find_turns, checked under SpecFind *)

Returned == calls >= 1 /\ raised = "none"

Qualifies(row) == row.Brake > brake_threshold /\ row.Speed < speed_threshold

DistanceColumn == [i \in 1..Len(telemetry.rows) |-> telemetry.rows[i].Distance]

RECURSIVE IsSubsequence(_, _)
IsSubsequence(s, t) ==
    IF s = <<>> THEN TRUE
    ELSE IF t = <<>> THEN FALSE
    ELSE IF Head(s) = Head(t) THEN IsSubsequence(Tail(s), Tail(t))
    ELSE IsSubsequence(s, Tail(t))

\* C1: the list returned by one call of find_turns holds no distance twice.
C1_NoDuplicateDistance ==
    Returned =>
        \A j, k \in 1..Len(turns) : j # k => turns[j] # turns[k]

\* C2: every returned distance is the distance of a sample whose brake is
\* strictly above brake_threshold and whose speed is strictly below
\* speed_threshold, both at the same index.
C2_EveryTurnQualifies ==
    Returned =>
        \A k \in 1..Len(turns) :
            \E i \in 1..Len(telemetry.rows) :
                /\ telemetry.rows[i].Distance = turns[k]
                /\ Qualifies(telemetry.rows[i])

\* a call returned a turn while a sample with brake on the threshold and a
\* sample with speed on the threshold, each at a distance of its own, gave none
C2_Witness ==
    /\ Returned
    /\ Len(turns) >= 1
    /\ \E i \in 1..Len(telemetry.rows) :
          /\ telemetry.rows[i].Brake = brake_threshold
          /\ telemetry.rows[i].Speed < speed_threshold
          /\ ~Contains(turns, telemetry.rows[i].Distance)
    /\ \E i \in 1..Len(telemetry.rows) :
          /\ telemetry.rows[i].Speed = speed_threshold
          /\ telemetry.rows[i].Brake > brake_threshold
          /\ ~Contains(turns, telemetry.rows[i].Distance)

\* C3: the distance of every sample that qualifies is in the returned list.
C3_EveryQualifyingSamplePresent ==
    Returned =>
        \A i \in 1..Len(telemetry.rows) :
            Qualifies(telemetry.rows[i]) => Contains(turns, telemetry.rows[i].Distance)

\* C7: find_turns raises whenever Distance, Speed or Brake is absent from the
\* telemetry, whatever the samples are.
C7_MissingColumnRaises ==
    (calls >= 1 /\ ~({"Distance", "Speed", "Brake"} \subseteq telemetry.columns))
        => raised = "KeyError"

\* C9: on a telemetry that has the Speed and Brake columns and no sample
\* qualifying, find_turns returns the empty list.
C9_EmptyWhenNoneQualifies ==
    ( /\ calls >= 1
      /\ {"Speed", "Brake"} \subseteq telemetry.columns
      /\ \A i \in 1..Len(telemetry.rows) : ~Qualifies(telemetry.rows[i]) )
        => (raised = "none" /\ turns = <<>>)

\* a call returned the empty list for a telemetry holding a braking sample at
\* or above the speed threshold and a slow sample that is not braking
C9_Witness ==
    /\ Returned
    /\ telemetry.columns = Columns
    /\ turns = <<>>
    /\ \E i \in 1..Len(telemetry.rows) :
          /\ telemetry.rows[i].Brake > brake_threshold
          /\ telemetry.rows[i].Speed >= speed_threshold
    /\ \E i \in 1..Len(telemetry.rows) :
          /\ telemetry.rows[i].Brake <= brake_threshold
          /\ telemetry.rows[i].Speed < speed_threshold

\* C10: the returned list is a subsequence of the Distance column in index
\* order, hence non-decreasing when the Distance column is.
C10_ScanOrder ==
    Returned =>
        /\ IsSubsequence(turns, DistanceColumn)
        /\ NonDecreasing(DistanceColumn) => NonDecreasing(turns)

\* a call returned two different distances and skipped a sample between them
C10_Witness ==
    /\ Returned
    /\ Len(turns) = 2
    /\ turns[1] < turns[2]
    /\ Len(telemetry.rows) = 3
    /\ ~Qualifies(telemetry.rows[2])

----------------------------------------------------------------------------
(* Properties of plot_telemetry_with_turns, checked under SpecPlot *)

\* C4: a call with lists of different lengths never completes the rendering.
C4_LengthMismatchFails ==
    Len(telemetries) # Len(drivers) => ~shown

\* C5: when the call aborts, either no axis holds a trace or a marker, or every
\* axis holds the trace of every telemetry and the same markers.
C5_AllOrNothing ==
    plot_raised # "none" =>
        \/ \A p \in Panels : ax[p].lines = <<>> /\ ax[p].marks = <<>>
        \/ \A p \in Panels : /\ Len(ax[p].lines) = Len(telemetries)
                             /\ ax[p].marks = ax[1].marks

\* the markers of the telemetries from position i on: the k-th turn of each at
\* its distance, labelled "Turn k"
RECURSIVE numbered_marks(_, _)
numbered_marks(tels, i) ==
    IF i > Len(tels) THEN <<>>
    ELSE LET found == find_turns(tels[i], DefaultSpeedThreshold, DefaultBrakeThreshold).turns
         IN [k \in 1..Len(found) |-> [x |-> found[k], text |-> <<"Turn", k>>]]
            \o numbered_marks(tels, i + 1)

\* C6: on a completed figure every axis carries, for every telemetry, the k-th
\* turn find_turns returned as a marker at its distance labelled "Turn k".
C6_TurnsNumbered ==
    (shown /\ Len(telemetries) = Len(drivers)) => \A p \in Panels : ax[p].marks = numbered_marks(telemetries, 1)

====
